---- MODULE Spec2Model ----
(***************************************************************************)
(* Response-To-Zip: the text-to-files parser (parseResponse), the archive  *)
(* builder (generateZip) and the editing surface (CodeEditor.saveChanges). *)
(*                                                                         *)
(* A JavaScript string is modelled as a sequence of characters, each       *)
(* character a one-element TLA+ string.  The box-drawing characters        *)
(* and the backtick, which a TLA+ string literal cannot hold, are written   *)
(* by name (BoxVR, ..., Tick).                                             *)
(***************************************************************************)
EXTENDS Integers, Sequences, FiniteSets, TLC

\* ------------------------------------------------------------ characters

BoxVR == "BOX_VR"   \* U+251C, the tee of a tree drawing
BoxUR == "BOX_UR"   \* U+2514, the corner of a tree drawing
BoxV  == "BOX_V"    \* U+2502, the vertical bar of a tree drawing
BoxH  == "BOX_H"    \* U+2500, the horizontal bar of a tree drawing
Tick  == "TICK"     \* U+0060, the backtick of a code fence

\* \s of a JavaScript regular expression, and what String.trim removes.
WS == {" ", "\t", "\n", "\r"}

\* \w of a JavaScript regular expression.
WordCh ==
    {"a","b","c","d","e","f","g","h","i","j","k","l","m","n","o","p","q",
     "r","s","t","u","v","w","x","y","z","A","B","C","D","E","F","0","1",
     "2","3","4","5","6","7","8","9","_"}

Dash3 == <<"-", "-", "-">>
Tick3 == <<Tick, Tick, Tick>>

\* ------------------------------------------------------ string functions

AllWs(s) == \A k \in 1..Len(s) : s[k] \in WS

RECURSIVE LTrim(_)
LTrim(s) == IF s # <<>> /\ s[1] \in WS THEN LTrim(Tail(s)) ELSE s

RECURSIVE RTrim(_)
RTrim(s) ==
    IF s # <<>> /\ s[Len(s)] \in WS THEN RTrim(SubSeq(s, 1, Len(s) - 1)) ELSE s

\* String.prototype.trim
Trim(s) == RTrim(LTrim(s))

StartsWith(s, p) == Len(s) >= Len(p) /\ SubSeq(s, 1, Len(p)) = p

EndsWith(s, p) ==
    Len(s) >= Len(p) /\ SubSeq(s, Len(s) - Len(p) + 1, Len(s)) = p

\* String.prototype.includes
Includes(s, p) ==
    \E k \in 1..(Len(s) - Len(p) + 1) : SubSeq(s, k, k + Len(p) - 1) = p

Drop(s, n) == SubSeq(s, n + 1, Len(s))

\* Array.prototype.join
RECURSIVE Join(_, _)
Join(ls, sep) ==
    IF ls = <<>> THEN <<>>
    ELSE IF Len(ls) = 1 THEN ls[1]
    ELSE ls[1] \o sep \o Join(Tail(ls), sep)

\* String.prototype.split on a one-character separator: "" splits to [""].
RECURSIVE SplitFrom(_, _, _)
SplitFrom(s, sep, cur) ==
    IF s = <<>> THEN <<cur>>
    ELSE IF s[1] = sep THEN <<cur>> \o SplitFrom(Tail(s), sep, <<>>)
    ELSE SplitFrom(Tail(s), sep, Append(cur, s[1]))

Split(s, sep) == SplitFrom(s, sep, <<>>)

\* ------------------------------------------------- the line classifiers

\* JavaScript null, where the source holds a string or null.
null == <<"null">>

\* Mutant of codeBlockMatch: the line is matched without being trimmed.
codeBlockMatch_Untrimmed(line) == StartsWith(line, Tick3)

\* line.trim().match(/^TickTickTick(\w+)?/): the optional group never fails
\* the match.
codeBlockMatch(line) == StartsWith(Trim(line), Tick3)

\* /^[\s]*[BoxVR BoxUR BoxV]\s*/
TreeRe1(line) ==
    LET t == LTrim(line) IN t # <<>> /\ t[1] \in {BoxVR, BoxUR, BoxV}

\* /^[\s]*[BoxVR BoxUR] BoxH BoxH/
TreeRe2(line) ==
    LET t == LTrim(line)
    IN  Len(t) >= 3 /\ t[1] \in {BoxVR, BoxUR} /\ t[2] = BoxH /\ t[3] = BoxH

\* /^[\s]*[BoxV]\s*$/
TreeRe3(line) ==
    LET t == LTrim(line) IN t # <<>> /\ t[1] = BoxV /\ AllWs(Tail(t))

\* Mutant of isFolderStructureLine: the test for a path ending in "/" is lost.
isFolderStructureLine_BoxOnly(line) ==
    TreeRe1(line) \/ TreeRe2(line) \/ TreeRe3(line)

\* The condition of "Skip folder structure lines".
isFolderStructureLine(line) ==
    \/ TreeRe1(line)
    \/ TreeRe2(line)
    \/ TreeRe3(line)
    \/ (EndsWith(Trim(line), <<"/">>) /\ ~Includes(line, Dash3))

\* The spans <<s, e>> of a line that a regular expression of the shape
\* Pre (group) Post can give its group: the prefix before s matches Pre, the
\* group s..e matches Mid, the suffix after e matches Post.
Spans(line, Pre(_), Mid(_), Post(_)) ==
    LET n == Len(line)
        starts == { s \in 1..n : Pre(SubSeq(line, 1, s - 1)) }
        ends == { e \in 1..n : Post(SubSeq(line, e + 1, n)) }
    IN  { se \in starts \X ends :
            se[1] <= se[2] /\ Mid(SubSeq(line, se[1], se[2])) }

\* The group of the match the engine finds first: every quantifier before the
\* group is greedy (the largest start); a lazy group ends at the smallest end,
\* a greedy one at the largest.
MaxStart(spans) == CHOOSE s \in {se[1] : se \in spans} :
                      \A se \in spans : se[1] <= s
MinEnd(spans, s) == CHOOSE e \in {se[2] : se \in {x \in spans : x[1] = s}} :
                      \A se \in {x \in spans : x[1] = s} : e <= se[2]
MaxEnd(spans, s) == CHOOSE e \in {se[2] : se \in {x \in spans : x[1] = s}} :
                      \A se \in {x \in spans : x[1] = s} : se[2] <= e

\* /^\s*\/\/\s+(.+\.\w+)\s*$/
CommentPre(p) ==
    LET a == LTrim(p)
    IN  /\ StartsWith(a, <<"/", "/">>)
        /\ Len(a) >= 3
        /\ AllWs(Drop(a, 2))
CommentMid(c) ==
    /\ \A j \in 1..Len(c) : c[j] \notin {"\n", "\r"}
    /\ \E k \in 2..(Len(c) - 1) :
        /\ c[k] = "."
        /\ \A j \in (k + 1)..Len(c) : c[j] \in WordCh
CommentPost(q) == AllWs(q)

commentFileMatch(line) ==
    IF ~StartsWith(LTrim(line), <<"/", "/">>) THEN null
    ELSE LET spans == Spans(line, CommentPre, CommentMid, CommentPost)
         IN  IF spans = {} THEN null
             ELSE LET s == MaxStart(spans)
                  IN  SubSeq(line, s, MaxEnd(spans, s))

\* The part of both dashed patterns before the group: /^\s*\\?---\s*
DashedHead(p) ==
    LET a == LTrim(p)
        b == IF StartsWith(a, <<"\\">>) THEN Tail(a) ELSE a
    IN  IF StartsWith(b, Dash3) THEN LTrim(Drop(b, 3)) ELSE null

\* ... and after it: \s*---\s*$/
DashedTail(q) ==
    LET c == LTrim(q) IN StartsWith(c, Dash3) /\ AllWs(Drop(c, 3))

\* A line either dashed pattern can match at all.
DashedShape(line) ==
    LET a == LTrim(line)
        b == IF StartsWith(a, <<"\\">>) THEN Tail(a) ELSE a
    IN  StartsWith(b, Dash3) /\ EndsWith(RTrim(line), Dash3)

\* /^\s*\\?---\s*\[?([^\[\]]+?)\]?\s*---\s*$/
MarkerPre(p) == DashedHead(p) \in {<<>>, <<"[">>}
MarkerMid(c) == c # <<>> /\ \A k \in 1..Len(c) : c[k] \notin {"[", "]"}
MarkerPost(q) == DashedTail(IF StartsWith(q, <<"]">>) THEN Tail(q) ELSE q)

fileMarkerMatch(line) ==
    IF ~DashedShape(line) THEN null
    ELSE LET spans == Spans(line, MarkerPre, MarkerMid, MarkerPost)
         IN  IF spans = {} THEN null
             ELSE LET s == MaxStart(spans)
                  IN  SubSeq(line, s, MinEnd(spans, s))

\* /^\s*\\?---\s*([^\-]+?)\s*---\s*$/
AltPre(p) == DashedHead(p) = <<>>
AltMid(c) == c # <<>> /\ \A k \in 1..Len(c) : c[k] # "-"
AltPost(q) == DashedTail(q)

altFileMarkerMatch(line) ==
    IF ~DashedShape(line) THEN null
    ELSE LET spans == Spans(line, AltPre, AltMid, AltPost)
         IN  IF spans = {} THEN null
             ELSE LET s == MaxStart(spans)
                  IN  SubSeq(line, s, MinEnd(spans, s))

\* --------------------------------------------------------- parseResponse

VARIABLES
    content,         \* parseResponse's argument
    lines,           \* content.split('\n')
    i,               \* the loop index, from 1
    files,           \* the records pushed so far
    currentFile,     \* the open file's path, or null
    currentContent,  \* the lines accumulated for the open file
    inCodeBlock,     \* inside a fenced code block
    skipNext,        \* skip blank lines at the start of a content block
    pc,              \* "scan" in the loop, "done" once parseResponse returned
    returned         \* log of the calls that returned: <<content, files>>

scanVars == <<content, lines, i, files, currentFile, currentContent,
              inCodeBlock, skipNext, pc, returned>>

\* The state of the two components, ResponseParser and CodeEditor.
VARIABLES
    input,           \* ResponseParser: the text of the paste box
    parsedFiles,     \* ResponseParser: the records handed to CodeEditor
    status,          \* ResponseParser: the status message shown, or noStatus
    isGenerating,    \* ResponseParser: the loader is shown
    pending,         \* the generateZip calls suspended at zip.generateAsync
    downloaded,      \* the archive last handed to the browser, if any
    selectedFile,    \* CodeEditor: the selected path, or null
    editMode,        \* CodeEditor: the editor is writable
    editedContent    \* CodeEditor: the text in the editor

appVars == <<input, parsedFiles, status, isGenerating, pending, downloaded,
             selectedFile, editMode, editedContent>>

vars == <<scanVars, appVars>>

\* if (currentFile): null and "" are both falsy.
Truthy(s) == s # null /\ s # <<>>

ParsedFile(path, text) == [path |-> path, content |-> text]

\* Mutant of Flush: the joined content is pushed untrimmed.
Flush_NoTrim(fs, cf, cc) ==
    IF cf # <<"null">> /\ cf # <<>>
    THEN Append(fs, [path |-> cf, content |-> Join(cc, <<"\n">>)])
    ELSE fs

\* Mutant of Flush: a record whose path equals the last record's replaces it.
Flush_Merge(fs, cf, cc) ==
    LET rec == [path |-> cf, content |-> Trim(Join(cc, <<"\n">>))]
    IN  IF cf = <<"null">> \/ cf = <<>> THEN fs
        ELSE IF fs # <<>> /\ fs[Len(fs)].path = cf
             THEN [fs EXCEPT ![Len(fs)] = rec]
             ELSE Append(fs, rec)

\* Mutant of Flush: only the end of the joined content is trimmed.
Flush_TrimEnd(fs, cf, cc) ==
    IF cf # <<"null">> /\ cf # <<>>
    THEN Append(fs, [path |-> cf, content |-> RTrim(Join(cc, <<"\n">>))])
    ELSE fs

\* Mutant of Flush: every line is trimmed before the join.
Flush_TrimLines(fs, cf, cc) ==
    IF cf # <<"null">> /\ cf # <<>>
    THEN Append(fs, [path |-> cf,
                     content |-> Trim(Join([k \in 1..Len(cc) |-> Trim(cc[k])],
                                           <<"\n">>))])
    ELSE fs

\* if (currentFile) files.push({path: currentFile,
\*                              content: currentContent.join('\n').trim()})
Flush(fs, cf, cc) ==
    IF Truthy(cf) THEN Append(fs, ParsedFile(cf, Trim(Join(cc, <<"\n">>))))
    ELSE fs

\* Mutant of Push: the line is trimmed before it is kept.
Push_Trimmed(cf, cc, line) ==
    IF cf # <<"null">> /\ cf # <<>> THEN Append(cc, Trim(line)) ELSE cc

\* Mutant of Push: the line is kept whether or not a file is open.
Push_Always(cf, cc, line) == Append(cc, line)

\* if (currentFile) currentContent.push(line)
Push(cf, cc, line) == IF Truthy(cf) THEN Append(cc, line) ELSE cc

\* The branch of the loop body a line takes, in the order the body tests them.
Branch(line, skip) ==
    IF skip /\ Trim(line) = <<>> THEN "skip"
    ELSE IF codeBlockMatch(line) THEN "fence"
    ELSE IF isFolderStructureLine(line) THEN "tree"
    ELSE IF commentFileMatch(line) # null THEN "comment"
    ELSE IF fileMarkerMatch(line) # null THEN "marker"
    ELSE IF /\ altFileMarkerMatch(line) # null
            /\ Includes(altFileMarkerMatch(line), <<".">>) THEN "alt"
    ELSE "content"

\* Mutant of MarkerPath: the captured group is used untrimmed.
MarkerPath_NoTrim(line, b) ==
    CASE b = "comment" -> commentFileMatch(line)
      [] b = "marker"  -> fileMarkerMatch(line)
      [] b = "alt"     -> altFileMarkerMatch(line)

\* The path a marker line opens: match[1].trim()
MarkerPath(line, b) ==
    Trim(CASE b = "comment" -> commentFileMatch(line)
           [] b = "marker"  -> fileMarkerMatch(line)
           [] b = "alt"     -> altFileMarkerMatch(line))

\* Mutant of AtLine: inside a fenced block a marker line is taken as content.
AtLine_FenceSuppresses(b) ==
    /\ pc = "scan"
    /\ i <= Len(lines)
    /\ b = IF /\ inCodeBlock
              /\ Branch(lines[i], skipNext) \in {"comment", "marker", "alt"}
           THEN "content"
           ELSE Branch(lines[i], skipNext)

\* The loop is at line i and the line takes branch b.
AtLine(b) ==
    /\ pc = "scan"
    /\ i <= Len(lines)
    /\ Branch(lines[i], skipNext) = b

\* Mutant of SkipBlank: the skipped blank line clears skipNext.
SkipBlank_Once ==
    /\ AtLine("skip")
    /\ i' = i + 1
    /\ skipNext' = FALSE
    /\ UNCHANGED <<returned, content, lines, files, currentFile,
                   currentContent, inCodeBlock, pc>>
    /\ UNCHANGED appVars

\* if (skipNext && line.trim() === '') continue;   (skipNext stays set)
SkipBlank ==
    /\ AtLine("skip")
    /\ i' = i + 1
    /\ UNCHANGED <<returned, content, lines, files, currentFile, currentContent,
                   inCodeBlock, skipNext, pc>>
    /\ UNCHANGED appVars

\* if (codeBlockMatch) { inCodeBlock = !inCodeBlock; continue; }
FenceToggle ==
    /\ AtLine("fence")
    /\ skipNext' = FALSE
    /\ inCodeBlock' = ~inCodeBlock
    /\ i' = i + 1
    /\ UNCHANGED <<returned, content, lines, files, currentFile,
                   currentContent, pc>>
    /\ UNCHANGED appVars

\* Skip folder structure lines
TreeSkip ==
    /\ AtLine("tree")
    /\ skipNext' = FALSE
    /\ i' = i + 1
    /\ UNCHANGED <<returned, content, lines, files, currentFile, currentContent,
                   inCodeBlock, pc>>
    /\ UNCHANGED appVars

\* The body the three marker branches share: save the previous file, start
\* the new one.
OpenFile(b) ==
    /\ files' = Flush(files, currentFile, currentContent)
    /\ currentFile' = MarkerPath(lines[i], b)
    /\ currentContent' = <<>>
    /\ skipNext' = TRUE
    /\ i' = i + 1
    /\ UNCHANGED <<returned, content, lines, inCodeBlock, pc>>
    /\ UNCHANGED appVars

\* Detect Claude's comment-style file markers: // filename
CommentMarker ==
    /\ AtLine("comment")
    /\ OpenFile("comment")

\* Detect file markers: --- [path] --- or \--- [path] ---
FileMarker ==
    /\ AtLine("marker")
    /\ OpenFile("marker")

\* Alternative file marker format: just --- filepath ---
AltFileMarker ==
    /\ AtLine("alt")
    /\ OpenFile("alt")

\* Add content to current file
AddContent ==
    /\ AtLine("content")
    /\ skipNext' = FALSE
    /\ currentContent' = Push(currentFile, currentContent, lines[i])
    /\ i' = i + 1
    /\ UNCHANGED <<returned, content, lines, files, currentFile,
                   inCodeBlock, pc>>
    /\ UNCHANGED appVars

\* Don't forget the last file; return files
Return ==
    /\ pc = "scan"
    /\ i > Len(lines)
    /\ files' = Flush(files, currentFile, currentContent)
    /\ pc' = "done"
    /\ returned' = Append(returned, <<content, files'>>)
    /\ UNCHANGED <<content, lines, i, currentFile, currentContent,
                   inCodeBlock, skipNext>>
    /\ UNCHANGED appVars

\* The same scan as a function of the text: the loop body on a record of the
\* locals, folded over the lines, then the last flush.
ScanState(fs, cf, cc, icb, sn) ==
    [files |-> fs, currentFile |-> cf, currentContent |-> cc,
     inCodeBlock |-> icb, skipNext |-> sn]

ScanLine(st, line) ==
    LET b == Branch(line, st.skipNext)
    IN  CASE b = "skip" -> st
          [] b = "fence" ->
               [st EXCEPT !.skipNext = FALSE, !.inCodeBlock = ~@]
          [] b = "tree" -> [st EXCEPT !.skipNext = FALSE]
          [] b \in {"comment", "marker", "alt"} ->
               ScanState(Flush(st.files, st.currentFile, st.currentContent),
                         MarkerPath(line, b), <<>>, st.inCodeBlock, TRUE)
          [] b = "content" ->
               [st EXCEPT !.skipNext = FALSE,
                          !.currentContent = Push(st.currentFile, @, line)]

RECURSIVE ScanFrom(_, _)
ScanFrom(st, ls) ==
    IF ls = <<>> THEN st ELSE ScanFrom(ScanLine(st, ls[1]), Tail(ls))

parseResponse(text) ==
    LET st == ScanFrom(ScanState(<<>>, null, <<>>, FALSE, FALSE),
                       Split(text, "\n"))
    IN  Flush(st.files, st.currentFile, st.currentContent)

\* ------------------------------------------------------------ the inputs

MaxLines == 4

Bracketed(p) == Dash3 \o <<" ", "[">> \o p \o <<"]", " ">> \o Dash3

LBlank      == <<" ">>
LPlain      == <<"x">>
LIndented   == <<" ", "x">>
LFence      == <<" ">> \o Tick3 \o <<"j", "s">>
LTree       == <<BoxVR, BoxH, BoxH, " ", "a">>
LDir        == <<"s", "/">>
LComment    == <<"/", "/", " ", "a", ".", "b">>
LComment2   == <<"/", "/", " ", "a", " ", "b", ".", "c">>
LMarkerA    == Bracketed(<<"a", ".", "b">>)
LMarkerC    == Bracketed(<<"c", "/", "d">>)
LMarkerNone == Bracketed(<<" ">>)
LAlt        == Dash3 \o <<" ", "a", "[", ".", "b", " ">> \o Dash3
LDivider    == Dash3 \o <<" ", "d", " ">> \o Dash3
LDashes     == Dash3 \o <<"-">> \o Dash3

\* The lines an input is made of: one or two of each kind the scan tells apart.
Pool ==
    {LBlank, LPlain, LIndented, LFence, LTree, LDir, LComment, LComment2,
     LMarkerA, LMarkerC, LMarkerNone, LAlt, LDivider, LDashes}

Texts == { Join(ls, <<"\n">>) :
             ls \in UNION { [1..n -> Pool] : n \in 1..MaxLines } }

\* -------------------------------------------------- repeated calls

\* The number of parseResponse calls a behaviour of CallSpec makes.
MaxCalls == 3

\* The texts parseResponse is called with again and again: between them they
\* take every branch of the loop body.
CallTexts ==
    { Join(<<LComment, LBlank, LFence, LPlain>>, <<"\n">>),
      Join(<<LMarkerA, LTree, LPlain>>, <<"\n">>),
      Join(<<LPlain, LAlt, LIndented>>, <<"\n">>) }

\* Mutant of parseCall: files, currentFile and currentContent are not created
\* by the call but left as the previous call left them.
parseCall_Stale ==
    /\ pc \in {"idle", "done"}
    /\ Len(returned) < MaxCalls
    /\ \E text \in CallTexts :
         /\ content' = text
         /\ lines' = Split(text, "\n")
    /\ i' = 1
    /\ inCodeBlock' = FALSE
    /\ skipNext' = FALSE
    /\ pc' = "scan"
    /\ UNCHANGED <<files, currentFile, currentContent, returned>>
    /\ UNCHANGED appVars

\* A call of parseResponse while none is running (the function is synchronous):
\* its locals are declared and initialised by the call.
parseCall ==
    /\ pc \in {"idle", "done"}
    /\ Len(returned) < MaxCalls
    /\ \E text \in CallTexts :
         /\ content' = text
         /\ lines' = Split(text, "\n")
    /\ i' = 1
    /\ files' = <<>>
    /\ currentFile' = null
    /\ currentContent' = <<>>
    /\ inCodeBlock' = FALSE
    /\ skipNext' = FALSE
    /\ pc' = "scan"
    /\ UNCHANGED returned
    /\ UNCHANGED appVars

\* ---------------------------------------------------------------- JSZip

\* zip.files: entry name -> entry.  A folder's name ends in "/".
EmptyZip == [n \in {} |-> n]

ZipPut(z, name, entry) ==
    [n \in DOMAIN z \cup {name} |-> IF n = name THEN entry ELSE z[n]]

forceTrailingSlash(path) ==
    IF EndsWith(path, <<"/">>) THEN path ELSE Append(path, "/")

\* lastIndexOf('/'), from 1; 0 when there is none.
LastSlash(path) ==
    IF \E k \in 1..Len(path) : path[k] = "/"
    THEN CHOOSE k \in 1..Len(path) :
           path[k] = "/" /\ \A j \in (k + 1)..Len(path) : path[j] # "/"
    ELSE 0

parentFolder(path) ==
    LET q == IF EndsWith(path, <<"/">>) THEN SubSeq(path, 1, Len(path) - 1)
             ELSE path
    IN  IF LastSlash(q) > 1 THEN SubSeq(q, 1, LastSlash(q) - 1) ELSE <<>>

\* folderAdd with createFolders: an existing entry of that name is kept, the
\* parent folders are added first.
RECURSIVE folderAdd(_, _)
folderAdd(z, name) ==
    LET n == forceTrailingSlash(name)
        zp == IF parentFolder(n) # <<>> THEN folderAdd(z, parentFolder(n))
              ELSE z
    IN  IF n \in DOMAIN z THEN z
        ELSE ZipPut(zp, n, [dir |-> TRUE, data |-> <<>>])

\* zip.folder(arg) at the root of the archive: no-op on "".
zipFolder(z, arg) == IF arg = <<>> THEN z ELSE folderAdd(z, arg)

\* zip.file(name, data): the parent folders are created, the entry of that
\* name is replaced.
zipFile(z, name, data) ==
    LET zp == IF parentFolder(name) # <<>> THEN folderAdd(z, parentFolder(name))
              ELSE z
    IN  ZipPut(zp, name, [dir |-> FALSE, data |-> data])

\* ---------------------------------------------------------- generateZip

\* file.path.replace(/^\/+/, '')
RECURSIVE normalizedPath(_)
normalizedPath(path) ==
    IF path # <<>> /\ path[1] = "/" THEN normalizedPath(Tail(path)) ELSE path

\* The loop "Create intermediate folders" over pathParts[0 .. length - 2].
RECURSIVE AddFolders(_, _, _, _)
AddFolders(z, pathParts, k, currentPath) ==
    IF k >= Len(pathParts) THEN z
    ELSE LET cp == currentPath \o pathParts[k] \o <<"/">>
         IN  AddFolders(IF cp \notin DOMAIN z THEN zipFolder(z, pathParts[k])
                        ELSE z,
                        pathParts, k + 1, cp)

\* The body of files.forEach: one record into the archive.
AddFile(z, file) ==
    LET np == normalizedPath(file.path)
        pathParts == Split(np, "/")
        zf == IF Len(pathParts) > 1 THEN AddFolders(z, pathParts, 1, <<>>)
              ELSE z
    IN  zipFile(zf, np, file.content)

\* Mutant of BuildZip: a record whose entry exists already is left out.
RECURSIVE BuildZip_FirstWins(_, _)
BuildZip_FirstWins(z, fs) ==
    IF fs = <<>> THEN z
    ELSE BuildZip_FirstWins(
           IF normalizedPath(fs[1].path) \in DOMAIN z THEN z
           ELSE AddFile(z, fs[1]),
           Tail(fs))

\* files.forEach(file => ...) on the new JSZip()
RECURSIVE BuildZip(_, _)
BuildZip(z, fs) ==
    IF fs = <<>> THEN z ELSE BuildZip(AddFile(z, fs[1]), Tail(fs))

noStatus == [type |-> "none", message |-> "none"]
Status(type, message) == [type |-> type, message |-> message]

MsgPasteFirst == "Please paste your AI code response first!"
MsgNoFiles == "No files found in the response. Please check the format."
MsgGenerated == "ZIP file generated successfully!"
MsgSerialize == "generateAsync rejected"
MsgUploaded == "File uploaded successfully!"

\* Mutant of NoFilesFound: the empty result is not checked.
NoFilesFound_Never(fs) == FALSE

\* if (files.length === 0) throw new Error('No files found ...')
NoFilesFound(fs) == Len(fs) = 0

\* The calls that may be suspended at generateAsync at once.
MaxPending == 1

\* Mutant of generateZip: records already parsed, with the edits saved into
\* them, are archived instead of a new parse of the input.
generateZip_KeepsEdits ==
    /\ IF Trim(input) = <<>>
       THEN /\ status' = Status("error", MsgPasteFirst)
            /\ UNCHANGED <<parsedFiles, isGenerating, pending>>
       ELSE LET fs == IF parsedFiles # <<>> THEN parsedFiles
                      ELSE parseResponse(input)
            IN  IF Len(fs) = 0
                THEN /\ status' = Status("error", MsgNoFiles)
                     /\ isGenerating' = FALSE
                     /\ UNCHANGED <<parsedFiles, pending>>
                ELSE /\ Len(pending) < MaxPending
                     /\ isGenerating' = TRUE
                     /\ parsedFiles' = fs
                     /\ pending' = Append(pending,
                                     [zip |-> BuildZip(EmptyZip, fs),
                                      count |-> Len(fs)])
                     /\ UNCHANGED status
    /\ UNCHANGED <<input, downloaded, selectedFile, editMode, editedContent>>
    /\ UNCHANGED scanVars

\* Mutant of generateZip: setParsedFiles is called before the test for an
\* empty parse.
generateZip_SetsBeforeTest ==
    /\ IF Trim(input) = <<>>
       THEN /\ status' = Status("error", MsgPasteFirst)
            /\ UNCHANGED <<parsedFiles, isGenerating, pending>>
       ELSE LET fs == parseResponse(input)
            IN  IF Len(fs) = 0
                THEN /\ status' = Status("error", MsgNoFiles)
                     /\ isGenerating' = FALSE
                     /\ parsedFiles' = fs
                     /\ UNCHANGED pending
                ELSE /\ Len(pending) < MaxPending
                     /\ isGenerating' = TRUE
                     /\ parsedFiles' = fs
                     /\ pending' = Append(pending,
                                     [zip |-> BuildZip(EmptyZip, fs),
                                      count |-> Len(fs)])
                     /\ UNCHANGED status
    /\ UNCHANGED <<input, downloaded, selectedFile, editMode, editedContent>>
    /\ UNCHANGED scanVars

\* generateZip up to its await: the early return, the throw caught in the same
\* call (finally resets isGenerating), or the archive built and the call
\* suspended at zip.generateAsync.
generateZip ==
    /\ IF Trim(input) = <<>>
       THEN /\ status' = Status("error", MsgPasteFirst)
            /\ UNCHANGED <<parsedFiles, isGenerating, pending>>
       ELSE LET fs == parseResponse(input)
            IN  IF NoFilesFound(fs)
                THEN /\ status' = Status("error", MsgNoFiles)
                     /\ isGenerating' = FALSE
                     /\ UNCHANGED <<parsedFiles, pending>>
                ELSE /\ Len(pending) < MaxPending
                     /\ isGenerating' = TRUE
                     /\ parsedFiles' = fs
                     /\ pending' = Append(pending,
                                     [zip |-> BuildZip(EmptyZip, fs),
                                      count |-> Len(fs)])
                     /\ UNCHANGED status
    /\ UNCHANGED <<input, downloaded, selectedFile, editMode, editedContent>>
    /\ UNCHANGED scanVars

Without(q, k) == SubSeq(q, 1, k - 1) \o SubSeq(q, k + 1, Len(q))

\* generateAsync resolved: the download, the success status, finally.
ZipResolved ==
    /\ \E k \in 1..Len(pending) :
         /\ downloaded' = <<pending[k].zip>>
         /\ status' = Status("success", MsgGenerated)
         /\ pending' = Without(pending, k)
    /\ isGenerating' = FALSE
    /\ UNCHANGED <<input, parsedFiles, selectedFile, editMode, editedContent>>
    /\ UNCHANGED scanVars

\* Mutant of ZipRejected: the rejection is caught but isGenerating is not
\* reset.
ZipRejected_NoFinally ==
    /\ \E k \in 1..Len(pending) : pending' = Without(pending, k)
    /\ status' = Status("error", MsgSerialize)
    /\ UNCHANGED <<input, parsedFiles, isGenerating, downloaded, selectedFile,
                   editMode, editedContent>>
    /\ UNCHANGED scanVars

\* generateAsync rejected: catch, finally.
ZipRejected ==
    /\ \E k \in 1..Len(pending) : pending' = Without(pending, k)
    /\ status' = Status("error", MsgSerialize)
    /\ isGenerating' = FALSE
    /\ UNCHANGED <<input, parsedFiles, downloaded, selectedFile, editMode,
                   editedContent>>
    /\ UNCHANGED scanVars

\* showStatus's setTimeout(() => setStatus(null), 5000)
StatusTimeout ==
    /\ status # noStatus
    /\ status' = noStatus
    /\ UNCHANGED <<input, parsedFiles, isGenerating, pending, downloaded,
                   selectedFile, editMode, editedContent>>
    /\ UNCHANGED scanVars

\* The texts typed or pasted into the box.
TEmpty == <<>>
TNoMarker == LPlain
LOther == <<"y">>
TDuplicate ==
    Join(<<LMarkerA, LPlain, LMarkerA, LOther>>, <<"\n">>)
TSlash ==
    Join(<<Bracketed(<<"/", "a", ".", "b">>), LPlain, LMarkerA, LOther,
           LMarkerC, LFence, LIndented, LFence>>, <<"\n">>)
TNested ==
    Join(<<Bracketed(<<"p", "/", "q", "/", "r">>), LPlain>>, <<"\n">>)

InputTexts == {TEmpty, TNoMarker, TDuplicate, TSlash, TNested}

\* textarea onChange: setInput(e.target.value)
setInput ==
    /\ \E t \in InputTexts : input' = t
    /\ UNCHANGED <<parsedFiles, status, isGenerating, pending, downloaded,
                   selectedFile, editMode, editedContent>>
    /\ UNCHANGED scanVars

\* handleFileUpload, once the FileReader has loaded the file
handleFileUpload ==
    /\ \E t \in InputTexts : input' = t
    /\ status' = Status("success", MsgUploaded)
    /\ UNCHANGED <<parsedFiles, isGenerating, pending, downloaded,
                   selectedFile, editMode, editedContent>>
    /\ UNCHANGED scanVars

\* clearInput
clearInput ==
    /\ input' = <<>>
    /\ parsedFiles' = <<>>
    /\ status' = noStatus
    /\ UNCHANGED <<isGenerating, pending, downloaded, selectedFile, editMode,
                   editedContent>>
    /\ UNCHANGED scanVars

\* ----------------------------------------------------------- CodeEditor

\* The path buildTree gives the file node of a record: the parts of file.path
\* joined again, currentPath ? currentPath + '/' + part : part.
RECURSIVE NodePathFrom(_, _)
NodePathFrom(currentPath, parts) ==
    IF parts = <<>> THEN currentPath
    ELSE NodePathFrom(IF currentPath # <<>>
                      THEN currentPath \o <<"/">> \o parts[1]
                      ELSE parts[1],
                      Tail(parts))

NodePath(path) == NodePathFrom(<<>>, Split(path, "/"))

\* files.map(file => file.path === selectedFile
\*                     ? {...file, content: editedContent} : file)
UpdatedFiles(fs, sel, text) ==
    [k \in 1..Len(fs) |->
        IF fs[k].path = sel THEN [fs[k] EXCEPT !.content = text] ELSE fs[k]]

\* saveChanges: if (selectedFile) { onFilesChange(updatedFiles); ... }, and
\* handleFilesChange is setParsedFiles.
SaveEffect ==
    IF Truthy(selectedFile)
    THEN UpdatedFiles(parsedFiles, selectedFile, editedContent)
    ELSE parsedFiles

\* The Save button, shown while a file is selected in edit mode.
saveChanges ==
    /\ parsedFiles # <<>>
    /\ Truthy(selectedFile)
    /\ editMode
    /\ parsedFiles' = SaveEffect
    /\ editMode' = FALSE
    /\ UNCHANGED <<input, status, isGenerating, pending, downloaded,
                   selectedFile, editedContent>>
    /\ UNCHANGED scanVars

\* A click on a file node of the tree: selectFile(node.path, node.content),
\* which saves the current changes before switching.
selectFile ==
    /\ \E k \in 1..Len(parsedFiles) :
         /\ selectedFile' = NodePath(parsedFiles[k].path)
         /\ editedContent' = parsedFiles[k].content
    /\ parsedFiles' = IF editMode THEN SaveEffect ELSE parsedFiles
    /\ editMode' = FALSE
    /\ UNCHANGED <<input, status, isGenerating, pending, downloaded>>
    /\ UNCHANGED scanVars

\* The Edit button, shown while a file is selected.
startEdit ==
    /\ parsedFiles # <<>>
    /\ Truthy(selectedFile)
    /\ ~editMode
    /\ editMode' = TRUE
    /\ UNCHANGED <<input, parsedFiles, status, isGenerating, pending,
                   downloaded, selectedFile, editedContent>>
    /\ UNCHANGED scanVars

\* The texts typed into the editor.
EditTexts == {<<"e">>, <<>>}

\* Editor onChange: editMode && setEditedContent(value || '')
editContent ==
    /\ parsedFiles # <<>>
    /\ Truthy(selectedFile)
    /\ editMode
    /\ \E t \in EditTexts : editedContent' = t
    /\ UNCHANGED <<input, parsedFiles, status, isGenerating, pending,
                   downloaded, selectedFile, editMode>>
    /\ UNCHANGED scanVars

\* cancelEdit
cancelEdit ==
    /\ parsedFiles # <<>>
    /\ Truthy(selectedFile)
    /\ editMode
    /\ editedContent' =
         IF \E k \in 1..Len(parsedFiles) : parsedFiles[k].path = selectedFile
         THEN parsedFiles[CHOOSE k \in 1..Len(parsedFiles) :
                /\ parsedFiles[k].path = selectedFile
                /\ \A j \in 1..(k - 1) : parsedFiles[j].path # selectedFile
              ].content
         ELSE editedContent
    /\ editMode' = FALSE
    /\ UNCHANGED <<input, parsedFiles, status, isGenerating, pending,
                   downloaded, selectedFile>>
    /\ UNCHANGED scanVars

\* ------------------------------------------------------ specifications

\* The components as mounted: nothing pasted, nothing parsed.
AppIdle ==
    /\ input = <<>>
    /\ parsedFiles = <<>>
    /\ status = noStatus
    /\ isGenerating = FALSE
    /\ pending = <<>>
    /\ downloaded = <<>>
    /\ selectedFile = null
    /\ editMode = FALSE
    /\ editedContent = <<>>

\* No call of parseResponse in progress.
ScanIdle ==
    /\ content = <<>>
    /\ lines = <<>>
    /\ i = 1
    /\ files = <<>>
    /\ currentFile = null
    /\ currentContent = <<>>
    /\ inCodeBlock = FALSE
    /\ skipNext = FALSE
    /\ pc = "idle"
    /\ returned = <<>>

\* parseResponse called on a text: its locals as lines 81-86 set them.
Init ==
    /\ content \in Texts
    /\ lines = Split(content, "\n")
    /\ i = 1
    /\ files = <<>>
    /\ currentFile = null
    /\ currentContent = <<>>
    /\ inCodeBlock = FALSE
    /\ skipNext = FALSE
    /\ pc = "scan"
    /\ returned = <<>>
    /\ AppIdle

Next ==
    \/ SkipBlank
    \/ FenceToggle
    \/ TreeSkip
    \/ CommentMarker
    \/ FileMarker
    \/ AltFileMarker
    \/ AddContent
    \/ Return

Spec == Init /\ [][Next]_vars

\* parseResponse called again and again, one call after the other.
CallInit == ScanIdle /\ AppIdle

CallNext ==
    \/ parseCall
    \/ SkipBlank
    \/ FenceToggle
    \/ TreeSkip
    \/ CommentMarker
    \/ FileMarker
    \/ AltFileMarker
    \/ AddContent
    \/ Return

CallSpec == CallInit /\ [][CallNext]_vars

AppInit == ScanIdle /\ AppIdle

AppNext ==
    \/ setInput
    \/ handleFileUpload
    \/ clearInput
    \/ generateZip
    \/ ZipResolved
    \/ ZipRejected
    \/ StatusTimeout
    \/ selectFile
    \/ startEdit
    \/ editContent
    \/ saveChanges
    \/ cancelEdit

AppSpec == AppInit /\ [][AppNext]_vars

\* The promise of zip.generateAsync settles: a suspended generateZip call is
\* resumed, by the resolution or by the rejection.
AppLive == AppSpec /\ WF_vars(ZipResolved \/ ZipRejected)

\* The loop and the fold are the same scan.
ScanIsFold == pc = "done" => files = parseResponse(content)

\* ================================================================ claims

Scanning == pc = "scan" /\ i <= Len(lines)

\* The lines of a record's content.
ContentLines(file) == Split(file.content, "\n")

\* ---------------------------------------------------------------- C1

\* A marker line written exactly as "--- [path] ---", the path without
\* brackets and without outer whitespace.
BracketedPathOf(line) == SubSeq(line, 6, Len(line) - 5)

WellFormedMarker(line) ==
    /\ Len(line) >= 11
    /\ line = Bracketed(BracketedPathOf(line))
    /\ Trim(BracketedPathOf(line)) = BracketedPathOf(line)
    /\ \A k \in 1..Len(BracketedPathOf(line)) :
         BracketedPathOf(line)[k] \notin {"[", "]"}

MarkerIdx(ls) == { k \in 1..Len(ls) : WellFormedMarker(ls[k]) }

\* The lines between marker k and the next marker, or the end of the input.
BodyOf(ls, k) ==
    LET later == { j \in MarkerIdx(ls) : j > k }
        stop == IF later = {} THEN Len(ls) + 1
                ELSE CHOOSE j \in later : \A m \in later : j <= m
    IN  SubSeq(ls, k + 1, stop - 1)

\* N well-formed bracketed markers with pairwise distinct paths, each followed
\* by a non-empty body, and nothing before the first marker.
WellFormedInput(ls) ==
    /\ 1 \in MarkerIdx(ls)
    /\ \A k \in MarkerIdx(ls) : Join(BodyOf(ls, k), <<"\n">>) # <<>>
    /\ \A j, k \in MarkerIdx(ls) :
         j # k => BracketedPathOf(ls[j]) # BracketedPathOf(ls[k])

RECURSIVE ExpectedFrom(_, _)
ExpectedFrom(ls, k) ==
    IF k > Len(ls) THEN <<>>
    ELSE IF k \in MarkerIdx(ls)
         THEN <<[path |-> BracketedPathOf(ls[k]),
                 content |-> Trim(Join(BodyOf(ls, k), <<"\n">>))]>>
              \o ExpectedFrom(ls, k + 1)
         ELSE ExpectedFrom(ls, k + 1)

\* A body line the scan keeps: no fence delimiter, no folder-structure line,
\* no marker of any of the three kinds.
OrdinaryLine(line) == Branch(line, FALSE) = "content"

PlainBodies(ls) ==
    \A k \in 1..Len(ls) : k \notin MarkerIdx(ls) => OrdinaryLine(ls[k])

\* C1 as stated: for any input made of N well-formed bracketed markers with
\* distinct paths and non-empty bodies, parseResponse returns exactly the N
\* records (path of marker i, trimmed body of marker i), in marker order.
C1_AnyBody ==
    (pc = "done" /\ WellFormedInput(lines)) => files = ExpectedFrom(lines, 1)

\* C1 as amended: the same, for bodies none of whose lines is a fence
\* delimiter, a folder-structure line or itself recognized as a marker.
C1_PlainBodies ==
    (pc = "done" /\ WellFormedInput(lines) /\ PlainBodies(lines))
        => files = ExpectedFrom(lines, 1)

\* Two markers with indented and plain bodies have been parsed.
C1_Witness ==
    /\ pc = "done"
    /\ lines = <<LMarkerA, LIndented, LMarkerC, LPlain>>
    /\ WellFormedInput(lines) /\ PlainBodies(lines)
    /\ Len(files) = 2

\* ---------------------------------------------------------------- C2

NonBlankPath(path) == path # null /\ Trim(path) # <<>>

\* C2: in every state of the scan and in the returned sequence no record has
\* an empty or whitespace-only path, and the open path, when there is one a
\* flush would push, is not blank.
C2_NoBlankPath ==
    /\ \A k \in 1..Len(files) : NonBlankPath(files[k].path)
    /\ Truthy(currentFile) => NonBlankPath(currentFile)

\* A marker with a blank path closed the open file and pushed no record of
\* its own.
C2_Witness ==
    /\ pc = "done"
    /\ lines = <<LMarkerA, LPlain, LMarkerNone, LPlain>>
    /\ Len(files) = 1

\* ---------------------------------------------------------------- C3

\* A decorative tree line, in the claim's words: a line of box-drawing
\* connectors, or a bare path ending in "/" with no marker syntax.
DecorativeTreeLine(line) ==
    LET t == Trim(line)
    IN  /\ t # <<>>
        /\ \/ t[1] \in {BoxVR, BoxUR, BoxV}
           \/ (t[Len(t)] = "/" /\ ~Includes(line, Dash3))

\* C3: a decorative tree line is never appended to currentContent and never
\* opens or closes a file, whatever the scanner state, and no line of any
\* record's content is a decorative tree line.
C3_TreeLinesDiscarded ==
    /\ [][(Scanning /\ DecorativeTreeLine(lines[i]))
            => (/\ currentContent' = currentContent
                /\ currentFile' = currentFile
                /\ files' = files)]_vars
    /\ [](\A k \in 1..Len(files) :
            \A j \in 1..Len(ContentLines(files[k])) :
               ~DecorativeTreeLine(ContentLines(files[k])[j]))

\* Both kinds of tree line were scanned while a file was open.
C3_Witness ==
    /\ pc = "done"
    /\ lines = <<LMarkerA, LTree, LDir, LPlain>>
    /\ files = <<[path |-> <<"a", ".", "b">>, content |-> <<"x">>]>>

\* ---------------------------------------------------------------- C4

\* A fence delimiter, in the claim's words: three backticks, optionally
\* followed by a language tag, once outer whitespace is removed.
FenceDelimiterLine(line) ==
    LET t == Trim(line)
    IN  StartsWith(t, Tick3) /\ \A k \in 4..Len(t) : t[k] \in WordCh

\* C4: a fence delimiter line toggles inCodeBlock and is discarded: it is not
\* appended to currentContent, opens or closes no file, and no line of any
\* record's content is a fence delimiter.
C4_FenceDiscarded ==
    /\ [][(Scanning /\ FenceDelimiterLine(lines[i]))
            => (/\ inCodeBlock' = ~inCodeBlock
                /\ currentContent' = currentContent
                /\ currentFile' = currentFile
                /\ files' = files)]_vars
    /\ [](\A k \in 1..Len(files) :
            \A j \in 1..Len(ContentLines(files[k])) :
               ~FenceDelimiterLine(ContentLines(files[k])[j]))

\* A fenced body was parsed: the two fences toggled and left no trace.
C4_Witness ==
    /\ pc = "done"
    /\ lines = <<LMarkerA, LFence, LPlain, LFence>>
    /\ ~inCodeBlock
    /\ files = <<[path |-> <<"a", ".", "b">>, content |-> <<"x">>]>>

\* ---------------------------------------------------------------- C5

\* A line the scan recognizes as a marker, of any of the three kinds.
IsMarkerLine(line) == Branch(line, FALSE) \in {"comment", "marker", "alt"}

\* A non-blank line scanned between an opening fence and its closing fence
\* while a file is open, that is neither the closing fence nor a marker.
\* (Blank lines are left aside: a blank line at the start or the end of a
\* content is not in it, by the skip after a marker and by the final trim.)
FencedLine ==
    /\ Scanning
    /\ inCodeBlock
    /\ Truthy(currentFile)
    /\ Trim(lines[i]) # <<>>
    /\ ~codeBlockMatch(lines[i])
    /\ ~IsMarkerLine(lines[i])

OpensFile(line) ==
    IsMarkerLine(line) /\ MarkerPath(line, Branch(line, FALSE)) # <<>>

RECURSIVE OpenedPaths(_)
OpenedPaths(ls) ==
    IF ls = <<>> THEN <<>>
    ELSE IF OpensFile(ls[1])
         THEN <<MarkerPath(ls[1], Branch(ls[1], FALSE))>>
              \o OpenedPaths(Tail(ls))
         ELSE OpenedPaths(Tail(ls))

\* The index of the record of the marker at line k.
RecordOf(ls, k) == Cardinality({ j \in 1..k : OpensFile(ls[j]) })

\* C6: no merge.  Every marker line with a non-empty path yields exactly one
\* record, in order, also when paths repeat; a marker directly followed by
\* another marker yields a record with empty content.
C6_NoMerge ==
    pc = "done" =>
        /\ [k \in 1..Len(files) |-> files[k].path] = OpenedPaths(lines)
        /\ \A k \in 1..(Len(lines) - 1) :
             (OpensFile(lines[k]) /\ IsMarkerLine(lines[k + 1]))
                => files[RecordOf(lines, k)].content = <<>>

\* Two adjacent markers for the same path gave two records, the first empty.
C6_Witness ==
    /\ pc = "done"
    /\ lines = <<LMarkerA, LMarkerA, LPlain>>
    /\ Len(files) = 2
    /\ files[1] = [path |-> <<"a", ".", "b">>, content |-> <<>>]
    /\ files[2] = [path |-> <<"a", ".", "b">>, content |-> <<"x">>]

\* ---------------------------------------------------------------- C7

\* No line of the input matches a marker pattern.
NoMarkerIn(ls) ==
    \A k \in 1..Len(ls) :
        /\ commentFileMatch(ls[k]) = null
        /\ fileMarkerMatch(ls[k]) = null
        /\ ~(/\ altFileMarkerMatch(ls[k]) # null
             /\ Includes(altFileMarkerMatch(ls[k]), <<".">>))

\* C7: on an input with no marker line no file is ever open, every line is
\* discarded and the returned sequence is empty.
C7_NoMarkerNoFiles ==
    NoMarkerIn(lines) =>
        /\ files = <<>>
        /\ currentFile = null
        /\ currentContent = <<>>

\* Plain, fence and tree lines only: scanned to the end, nothing returned.
C7_Witness ==
    /\ pc = "done"
    /\ lines = <<LPlain, LFence, LTree, LIndented>>
    /\ files = <<>>

\* ---------------------------------------------------------------- C8

\* What parseResponse returns on each text of the paste box.
ParseOf == [t \in InputTexts |-> parseResponse(t)]

\* The input is not blank and parseResponse finds no file in it.
EmptyParse == Trim(input) # <<>> /\ ParseOf[input] = <<>>

\* C8: a generateZip call on a non-blank input with an empty parse shows an
\* error status, builds no archive (no call is suspended at generateAsync)
\* and downloads none.
C8_EmptyParseAborts ==
    [][(EmptyParse /\ generateZip)
         => (/\ status' = Status("error", MsgNoFiles)
             /\ pending' = pending
             /\ downloaded' = downloaded
             /\ parsedFiles' = parsedFiles)]_vars

\* generateZip ran on a text with no marker: the error shows, no archive.
C8_Witness ==
    /\ input = TNoMarker
    /\ EmptyParse
    /\ status = Status("error", MsgNoFiles)
    /\ pending = <<>>
    /\ downloaded = <<>>

\* ---------------------------------------------------------------- C9

FileEntries(z) == { n \in DOMAIN z : ~z[n].dir }

\* The last record, in sequence order, with the normalized path np.
LastWith(fs, np) ==
    CHOOSE k \in 1..Len(fs) :
        /\ normalizedPath(fs[k].path) = np
        /\ \A j \in (k + 1)..Len(fs) : normalizedPath(fs[j].path) # np

\* C9: the archive a generateZip call builds has as file entries exactly the
\* normalized paths of the records, one entry each, with the content of the
\* last record of that normalized path.
C9_LastRecordWins ==
    [][Len(pending') > Len(pending)
         => LET z == pending'[Len(pending')].zip
                fs == parsedFiles'
            IN  /\ FileEntries(z) =
                     { normalizedPath(fs[k].path) : k \in 1..Len(fs) }
                /\ \A np \in FileEntries(z) :
                     z[np].data = fs[LastWith(fs, np)].content]_vars

\* The archive of "/a.b", "a.b", "c/d": one entry a.b, with the second
\* record's content.
C9_Witness ==
    /\ pending # <<>>
    /\ pending[1].count = 3
    /\ parsedFiles = parseResponse(TSlash)
    /\ parsedFiles[1].path = <<"/", "a", ".", "b">>
    /\ parsedFiles[1].content = <<"x">>
    /\ FileEntries(pending[1].zip) = {<<"a", ".", "b">>, <<"c", "/", "d">>}
    /\ pending[1].zip[<<"a", ".", "b">>].data = <<"y">>

\* --------------------------------------------------------------- C10

\* C10: saveChanges hands on a sequence of the same length with the same
\* paths in the same order, in which exactly one entry, the one for the
\* selected path, has its content replaced by the edited content and every
\* other entry is unchanged.
C10_ExactlyOneReplaced ==
    [][saveChanges
         => /\ Len(parsedFiles') = Len(parsedFiles)
            /\ \A k \in 1..Len(parsedFiles) :
                 parsedFiles'[k].path = parsedFiles[k].path
            /\ \E k \in 1..Len(parsedFiles) :
                 /\ parsedFiles[k].path = selectedFile
                 /\ parsedFiles'[k].content = editedContent
                 /\ \A j \in 1..Len(parsedFiles) :
                      j # k => parsedFiles'[j] = parsedFiles[j]]_vars

\* --------------------------------------------------------------- C11

\* C11: any two calls of parseResponse on the same text return equal
\* sequences, whatever calls were made before or between them; and each
\* returns what a call on a newly created scanner state returns.
C11_SameTextSameResult ==
    /\ \A j, k \in 1..Len(returned) :
         returned[j][1] = returned[k][1] => returned[j][2] = returned[k][2]
    /\ \A k \in 1..Len(returned) :
         returned[k][2] = parseResponse(returned[k][1])

\* Three calls returned: the first and the third on the same text, which
\* yields a record, the second on another text.
C11_Witness ==
    /\ Len(returned) = 3
    /\ returned[1][1] = returned[3][1]
    /\ returned[2][1] # returned[1][1]
    /\ returned[1][2] # <<>>
    /\ returned[2][2] # <<>>
    /\ returned[3][2] = returned[1][2]

\* --------------------------------------------------------------- C12

\* A dashed line without brackets whose token has no dot: "---", a non-empty
\* token free of "[", "]" and ".", "---"; a line made only of seven or more
\* dashes is one.
DotlessDashedLine(line) ==
    LET t == Trim(line)
    IN  /\ Len(t) >= 7
        /\ StartsWith(t, Dash3)
        /\ EndsWith(t, Dash3)
        /\ \A k \in 1..Len(t) : t[k] \notin {"[", "]", "."}

\* C12: the scan of an unbracketed dashed line whose token contains no dot
\* pushes no record and leaves currentFile as it was.
C12_DotlessDashedNeverOpens ==
    [][(Scanning /\ DotlessDashedLine(lines[i]))
         => (files' = files /\ currentFile' = currentFile)]_vars

\* --------------------------------------------------------------- C13

\* A line of dashed marker shape whose token is empty or whitespace-only:
\* "---", optional brackets around nothing but whitespace, "---".
BlankTokenLine(line) ==
    LET t == Trim(line)
        m == Trim(SubSeq(t, 4, Len(t) - 3))
        a == IF StartsWith(m, <<"[">>) THEN Tail(m) ELSE m
        b == IF EndsWith(a, <<"]">>) THEN SubSeq(a, 1, Len(a) - 1) ELSE a
    IN  /\ Len(t) >= 6
        /\ StartsWith(t, Dash3)
        /\ EndsWith(t, Dash3)
        /\ AllWs(b)

\* C13: the scan of a dashed line with a blank token while a file is open
\* pushes no record, keeps currentFile and keeps the lines accumulated so far
\* (the line itself may be added to them), so that later lines still go to
\* that file.
C13_BlankTokenKeepsFileOpen ==
    [][(Scanning /\ BlankTokenLine(lines[i]) /\ Truthy(currentFile))
         => (/\ files' = files
             /\ currentFile' = currentFile
             /\ currentContent' \in
                  {currentContent, Append(currentContent, lines[i])})]_vars

\* --------------------------------------------------------------- C14

\* A comment line with several words: "//", then text that, trimmed, still
\* has whitespace inside.
MultiWordComment(line) ==
    LET t == Trim(line)
        rest == Trim(Drop(t, 2))
    IN  /\ StartsWith(t, <<"/", "/">>)
        /\ \E k \in 1..Len(rest) : rest[k] \in WS

\* C14: the scan of a comment line with several words opens no file (no
\* record is pushed, currentFile stays) and, if a file is open, appends the
\* line to its content.
C14_MultiWordCommentIsContent ==
    [][(Scanning /\ MultiWordComment(lines[i]))
         => (/\ files' = files
             /\ currentFile' = currentFile
             /\ Truthy(currentFile)
                  => currentContent' = Append(currentContent, lines[i]))]_vars

\* --------------------------------------------------------------- C15

BlankLine(line) == Trim(line) = <<>>

\* C15 as stated: the line scanned while skipNext is set clears the flag, also
\* when it is blank (a marker line sets it again), so that a second blank line
\* is appended to the content.
C15_ClearedByNextLine ==
    [][(Scanning /\ skipNext /\ ~IsMarkerLine(lines[i])) => ~skipNext']_vars

\* C15 as amended: while skipNext is set, a blank line is consumed and leaves
\* the flag set, the content and everything else but the loop index
\* unchanged; a non-blank line that is no marker clears the flag.
C15_BlankRunSkipped ==
    /\ [][(Scanning /\ skipNext /\ BlankLine(lines[i]))
            => (/\ skipNext'
                /\ i' = i + 1
                /\ currentContent' = currentContent
                /\ currentFile' = currentFile
                /\ files' = files
                /\ inCodeBlock' = inCodeBlock)]_vars
    /\ [][(/\ Scanning
           /\ ~BlankLine(lines[i])
           /\ ~IsMarkerLine(lines[i])) => ~skipNext']_vars

\* A marker and two blank lines after it: both were skipped, the flag is
\* still set and nothing was accumulated.
C15_Witness ==
    /\ pc = "scan"
    /\ i = 4
    /\ lines[1] = LMarkerA
    /\ BlankLine(lines[2])
    /\ BlankLine(lines[3])
    /\ skipNext
    /\ currentFile = <<"a", ".", "b">>
    /\ currentContent = <<>>

\* --------------------------------------------------------------- C16

\* The lines without the blank lines at their start and at their end.
RECURSIVE DropLeadingBlank(_)
DropLeadingBlank(ls) ==
    IF ls # <<>> /\ BlankLine(ls[1]) THEN DropLeadingBlank(Tail(ls)) ELSE ls

RECURSIVE DropTrailingBlank(_)
DropTrailingBlank(ls) ==
    IF ls # <<>> /\ BlankLine(ls[Len(ls)])
    THEN DropTrailingBlank(SubSeq(ls, 1, Len(ls) - 1))
    ELSE ls

StripBlankLines(ls) == DropTrailingBlank(DropLeadingBlank(ls))

\* ... and without the whitespace before the first and after the last
\* non-blank character: the first line loses its indentation.
StripOuter(ls) ==
    LET k == StripBlankLines(ls)
    IN  IF k = <<>> THEN <<>>
        ELSE [j \in 1..Len(k) |->
                IF Len(k) = 1 THEN Trim(k[j])
                ELSE IF j = 1 THEN LTrim(k[j])
                ELSE IF j = Len(k) THEN RTrim(k[j])
                ELSE k[j]]

\* The record a step pushes.
Pushed == files'[Len(files')]

\* C16 as stated: the content of a pushed record is the accumulated lines,
\* each unmodified, joined by newlines, without the whole blank lines at the
\* start and at the end.
C16_OnlyBlankLinesRemoved ==
    [][files' # files
         => Pushed.content
              = Join(StripBlankLines(currentContent), <<"\n">>)]_vars

\* C16 as amended: the content is the accumulated lines joined by newlines
\* without the blank lines at the start and at the end, without the leading
\* whitespace of the first remaining line and without the trailing whitespace
\* of the last; every line between them is kept as it was accumulated.
C16_OuterTrimOnly ==
    [][files' # files
         => (/\ Len(files') = Len(files) + 1
             /\ Pushed.path = currentFile
             /\ Pushed.content
                  = Join(StripOuter(currentContent), <<"\n">>))]_vars

\* An indented line, a whitespace-only line and a plain line: the content
\* keeps the middle line, the first lost its indentation.
C16_Witness ==
    /\ pc = "done"
    /\ lines = <<LMarkerA, LIndented, LBlank, LPlain>>
    /\ Len(files) = 1
    /\ files[1].content = <<"x", "\n", " ", "\n", "x">>

\* --------------------------------------------------------------- C17

\* The records the scan of the lines returns when it starts with inCodeBlock
\* set to icb.
ScanWithFence(icb, ls) ==
    LET st == ScanFrom(ScanState(<<>>, null, <<>>, icb, FALSE), ls)
    IN  Flush(st.files, st.currentFile, st.currentContent)

\* C17: a marker line flushes the open file, opens its own, resets the
\* accumulated lines and sets skipNext whether inCodeBlock is set or not, and
\* leaves inCodeBlock alone; and the records returned are those of the same
\* scan started with inCodeBlock set.
C17_FencesDoNotSuppressMarkers ==
    /\ [][(Scanning /\ IsMarkerLine(lines[i]))
            => (/\ files' = IF Truthy(currentFile)
                            THEN Append(files,
                                   [path |-> currentFile,
                                    content |->
                                      Trim(Join(currentContent, <<"\n">>))])
                            ELSE files
                /\ currentFile'
                     = MarkerPath(lines[i], Branch(lines[i], FALSE))
                /\ currentContent' = <<>>
                /\ skipNext'
                /\ inCodeBlock' = inCodeBlock)]_vars
    /\ [](pc = "done" => files = ScanWithFence(TRUE, lines))

\* A marker after an opening fence that is never closed: its file was opened
\* and returned while inCodeBlock was set.
C17_Witness ==
    /\ pc = "done"
    /\ lines = <<LFence, LMarkerA, LPlain>>
    /\ inCodeBlock
    /\ files = <<[path |-> <<"a", ".", "b">>, content |-> <<"x">>]>>

\* --------------------------------------------------------------- C18

DirEntries(z) == { n \in DOMAIN z : z[n].dir }

\* The ancestor directories of a path, each at its nested position: for
\* a/b/c the names a/ and a/b/.
AncestorDirs(np) ==
    { SubSeq(np, 1, k) : k \in { j \in 1..Len(np) : np[j] = "/" } }

\* C18: the directory entries of the archive a generateZip call builds are
\* exactly the ancestor directories of the records' normalized paths.
C18_DirectoriesAreAncestors ==
    [][Len(pending') > Len(pending)
         => LET z == pending'[Len(pending')].zip
                fs == parsedFiles'
            IN  DirEntries(z)
                  = UNION { AncestorDirs(normalizedPath(fs[k].path)) :
                              k \in 1..Len(fs) }]_vars

\* --------------------------------------------------------------- C19

\* C19: a generateZip call that builds an archive sets parsedFiles to the
\* parse of the input as it is now, whatever the editor saved into
\* parsedFiles before, and every file of the archive has the content of a
\* record of that parse.
C19_ArchiveFromFreshParse ==
    [][Len(pending') > Len(pending)
         => LET z == pending'[Len(pending')].zip
                fs == ParseOf[input]
            IN  /\ parsedFiles' = fs
                /\ pending'[Len(pending')].count = Len(fs)
                /\ FileEntries(z)
                     = { normalizedPath(fs[k].path) : k \in 1..Len(fs) }
                /\ \A np \in FileEntries(z) :
                     z[np].data = fs[LastWith(fs, np)].content]_vars

\* The text "e" was saved for a.b, then generateZip ran again on the same
\* input: parsedFiles is the parse again and the archive has the parsed
\* content, not "e".
C19_Witness ==
    /\ input = TDuplicate
    /\ pending # <<>>
    /\ editedContent = <<"e">>
    /\ selectedFile = <<"a", ".", "b">>
    /\ ~editMode
    /\ parsedFiles = ParseOf[TDuplicate]
    /\ parsedFiles[2].content = <<"y">>
    /\ pending[1].zip[<<"a", ".", "b">>].data = <<"y">>

\* --------------------------------------------------------------- C20

\* The scanner without the skip rule: the same loop body, the test of
\* skipNext left out, so that a blank line after a marker is handled as any
\* other line.
ScanLineNoSkip(st, line) == ScanLine([st EXCEPT !.skipNext = FALSE], line)

RECURSIVE ScanFromNoSkip(_, _)
ScanFromNoSkip(st, ls) ==
    IF ls = <<>> THEN st
    ELSE ScanFromNoSkip(ScanLineNoSkip(st, ls[1]), Tail(ls))

ScanNoSkip(ls) ==
    LET st == ScanFromNoSkip(ScanState(<<>>, null, <<>>, FALSE, FALSE), ls)
    IN  Flush(st.files, st.currentFile, st.currentContent)

\* C20: parseResponse returns what the scanner without the skip rule returns.
C20_SkipRuleRedundant == pc = "done" => files = ScanNoSkip(lines)

\* Two blank lines after a marker were consumed by the skip rule; the scanner
\* without it accumulates them, and the record is the same.
C20_Witness ==
    /\ pc = "done"
    /\ lines = <<LMarkerA, LBlank, LBlank, LPlain>>
    /\ currentContent = <<LPlain>>
    /\ ScanFromNoSkip(ScanState(<<>>, null, <<>>, FALSE, FALSE),
                      lines).currentContent = <<LBlank, LBlank, LPlain>>
    /\ files = <<[path |-> <<"a", ".", "b">>, content |-> <<"x">>]>>

\* --------------------------------------------------------------- C21

\* C21: whenever isGenerating is true it is false again later; the call that
\* is resumed after zip.generateAsync, resolved or rejected, sets it to
\* false; and generateZip on a blank input leaves it as it is.
C21_GeneratingEnds ==
    /\ (isGenerating ~> ~isGenerating)
    /\ [][Len(pending') < Len(pending) => ~isGenerating']_vars
    /\ [][(Trim(input) = <<>> /\ generateZip)
            => isGenerating' = isGenerating]_vars

\* A call is suspended at zip.generateAsync with isGenerating set.
C21_Witness ==
    /\ isGenerating
    /\ pending # <<>>
    /\ input = TNested
    /\ parsedFiles = ParseOf[TNested]

\* --------------------------------------------------------------- C22

\* generateZip has nothing to archive: the input is blank or its parse is
\* empty.
NothingToArchive == Trim(input) = <<>> \/ ParseOf[input] = <<>>

\* C22: a generateZip call on a blank input or on an input whose parse is
\* empty shows an error and leaves parsedFiles as it was.
C22_FailureKeepsParsedFiles ==
    [][(NothingToArchive /\ generateZip)
         => (/\ parsedFiles' = parsedFiles
             /\ status'.type = "error")]_vars

\* The records of an earlier parse are still there after generateZip failed
\* on an input without a marker.
C22_Witness ==
    /\ input = TNoMarker
    /\ status = Status("error", MsgNoFiles)
    /\ parsedFiles = ParseOf[TSlash]
    /\ Len(parsedFiles) = 3

\* --------------------------------------------------------------- C23

\* C23: the file node buildTree makes for a record has the record's path, for
\* every record of parsedFiles; and saveChanges then replaces the content of
\* a record with the selected path.
C23_NodePathIsRecordPath ==
    /\ [](\A k \in 1..Len(parsedFiles) :
            NodePath(parsedFiles[k].path) = parsedFiles[k].path)
    /\ [][saveChanges
            => \E k \in 1..Len(parsedFiles) :
                 /\ parsedFiles[k].path = selectedFile
                 /\ parsedFiles'[k].content = editedContent]_vars

====
